---- MODULE Spec2Model ----
(***************************************************************************)
(* Model of the fixed-point decimal engine (package decimal).  A Decimal   *)
(* is a pair (value *big.Int, exp int32); the big.Int lives in a heap      *)
(* cell, so two Decimals (or a Decimal and a package-level table) may      *)
(* share one cell.  The state is the heap, one Decimal held by a caller    *)
(* (x), and the record of the last operation called (last).                *)
(***************************************************************************)
EXTENDS Integers, Sequences, FiniteSets, TLC

\* ---------------------------------------------------------------- bounds
\* Significands of constructed operands range over -MaxMag..MaxMag (plus the
\* tie digits, see Mags).
MaxMag == 2
\* Ordinary exponents of constructed operands range over -MaxExp..MaxExp.
MaxExp == 1
\* Clamp is called with integral + fractional <= MaxDigits.
MaxDigits == 1
\* Precisions / places / scale increments range over -MaxPrec..MaxPrec.
MaxPrec == 1
\* Largest power of ten an operation of the model may form (10^9 < 2^31).
MaxShift == 8
\* Longest text made of freely chosen characters.
MaxLen == 3

\* ------------------------------------------------------- program constants
MaxInt32 == 2147483647
MinInt32 == -MaxInt32 - 1
powTabLen == 20
ninesLen == 350
divisionPrecision == 16
fastPathLen == 18

\* ---------------------------------------------------------------- state
VARIABLES heap, x, last, txt, un,
          mu, rpcClientMap, chans, conns, procs, closer, env
\* The Decimals, the grpcClient with its callers, the collation Environment.
decimalVars == <<heap, x, last, txt, un>>
poolVars == <<mu, rpcClientMap, chans, conns, procs, closer>>
vars == <<decimalVars, poolVars, env>>

\* ------------------------------------------------------------ heap cells
NIL == <<"nil", 0>>
zeroInt == <<"zeroInt", 0>>
oneInt == <<"oneInt", 0>>
fiveInt == <<"fiveInt", 0>>
tenInt == <<"tenInt", 0>>
ZeroCell == <<"Zero", 0>>
Dyn(k) == <<"dyn", k>>

RECURSIVE Pow10(_)
Pow10(n) == IF n = 0 THEN 1 ELSE 10 * Pow10(n - 1)

\* The pointer arrays; the cells they point to are in the heap.
pow10bigtab == [i \in 0..MaxShift |-> IF i = 1 THEN tenInt ELSE <<"pow", i>>]
limitsBigTab == [i \in 0..MaxDigits |-> IF i = 0 THEN zeroInt ELSE <<"lim", i>>]

\* Zero = New(0, 1)
Zero == [value |-> ZeroCell, exp |-> 1]

GlobalCells ==
    {zeroInt, oneInt, fiveInt, tenInt, ZeroCell}
        \cup {pow10bigtab[i] : i \in DOMAIN pow10bigtab}
        \cup {limitsBigTab[i] : i \in DOMAIN limitsBigTab}

\* The value each package-level cell is initialised with.
InitialValue(a) ==
    IF a = zeroInt THEN 0
    ELSE IF a = oneInt THEN 1
    ELSE IF a = fiveInt THEN 5
    ELSE IF a = tenInt THEN 10
    ELSE IF a = ZeroCell THEN 0
    ELSE IF a[1] = "pow" THEN Pow10(a[2])
    ELSE Pow10(a[2]) - 1

\* ------------------------------------------------------ int32 arithmetic
\* a + b in int32 (wrapping), computed without leaving the int32 range.
Add32(a, b) ==
    IF a > 0 /\ b > 0 /\ a > MaxInt32 - b THEN (a + MinInt32) + (b + MinInt32)
    ELSE IF a < 0 /\ b < 0 /\ a < MinInt32 - b THEN (a - MinInt32) + (b - MinInt32)
    ELSE a + b
Neg32(a) == IF a = MinInt32 THEN MinInt32 ELSE -a
Sub32(a, b) ==
    IF b = MinInt32 THEN (IF a < 0 THEN a - MinInt32 ELSE a + MinInt32)
    ELSE Add32(a, -b)
\* Whether the mathematical sum a + b leaves the int32 range.
SumOverflows(a, b) ==
    \/ a > 0 /\ b > 0 /\ a > MaxInt32 - b
    \/ a < 0 /\ b < 0 /\ a < MinInt32 - b

\* ---------------------------------------------------- big.Int arithmetic
Abs(v) == IF v < 0 THEN -v ELSE v
Sgn(v) == IF v < 0 THEN -1 ELSE IF v > 0 THEN 1 ELSE 0
\* big.Int.Quo / Rem: T-division, truncated toward zero.
Quo(a, b) == Sgn(a) * Sgn(b) * (Abs(a) \div Abs(b))
Rem(a, b) == a - b * Quo(a, b)

\* ----------------------------------------------------------- Decimals
NoDec == [value |-> NIL, exp |-> 0]

NewAddr(h) == Dyn(CHOOSE k \in 1..(Cardinality(DOMAIN h) + 1) :
                     /\ Dyn(k) \notin DOMAIN h
                     /\ \A j \in 1..(k - 1) : Dyn(j) \in DOMAIN h)

\* new(big.Int) holding v: the heap with the cell, and the cell's address.
Alloc(h, v) == LET a == NewAddr(h) IN [h |-> (a :> v) @@ h, a |-> a]

\* The (value, exp) read through a Decimal; a nil buffer reads as zero
\* (ensureInitialized works on the callee's copy of the struct).
ensureInitialized(h, d) ==
    [value |-> IF d.value = NIL THEN 0 ELSE h[d.value], exp |-> d.exp]

\* Outcomes of a call.
Ret(h, d) == [h |-> h, outcome |-> "ok", out |-> d, out2 |-> NoDec, n |-> 0]
Ret2(h, d, e) == [h |-> h, outcome |-> "ok", out |-> d, out2 |-> e, n |-> 0]
Panic(h) == [h |-> h, outcome |-> "panic", out |-> NoDec, out2 |-> NoDec, n |-> 0]
\* A fresh Decimal holding the (value, exp) pair dv.
Fresh(h, dv) ==
    LET al == Alloc(h, dv.value)
    IN  Ret(al.h, [value |-> al.a, exp |-> dv.exp])

\* New(value, exp)
New(h, value, exp) == Fresh(h, [value |-> value, exp |-> exp])

\* d.Sign(): a nil buffer is zero.
Sign(h, d) == IF d.value = NIL THEN 0 ELSE Sgn(h[d.value])

\* ------------------------------------------------------------- helpers
RECURSIVE IntPow(_, _)
IntPow(b, n) == IF n = 0 THEN 1 ELSE b * IntPow(b, n - 1)

\* bigPow10(n): the table entry, or built from the last entry past the table.
bigPow10(h, n) ==
    IF n < powTabLen THEN h[pow10bigtab[n]]
    ELSE h[pow10bigtab[powTabLen - 1]] * IntPow(h[tenInt], n - (powTabLen - 1))

\* d.rescale(exp) on the (value, exp) pair d: truncates, never rounds.  The
\* result is always a new big.Int.
rescale(h, d, exp) ==
    IF exp > d.exp
    THEN [value |-> Quo(d.value, bigPow10(h, Sub32(exp, d.exp))), exp |-> exp]
    ELSE IF exp < d.exp
    THEN [value |-> d.value * bigPow10(h, Sub32(d.exp, exp)), exp |-> exp]
    ELSE [value |-> d.value, exp |-> exp]

min(a, b) == IF a >= b THEN b ELSE a

\* RescalePair(d1, d2): both at the smaller exponent.
RescalePair(h, d1, d2) ==
    IF d1.exp = d2.exp THEN <<d1, d2>>
    ELSE LET baseScale == min(d1.exp, d2.exp)
         IN  IF baseScale # d1.exp THEN <<rescale(h, d1, baseScale), d2>>
             ELSE <<d1, rescale(h, d2, baseScale)>>

IntCmp(a, b) == IF a < b THEN -1 ELSE IF a > b THEN 1 ELSE 0

\* d.Cmp(d2) and d.CmpAbs(d2) on (value, exp) pairs.
CmpV(h, d, d2) ==
    IF d.exp = d2.exp THEN IntCmp(d.value, d2.value)
    ELSE LET rp == RescalePair(h, d, d2) IN IntCmp(rp[1].value, rp[2].value)
CmpAbsV(h, d, d2) ==
    IF d.exp = d2.exp THEN IntCmp(Abs(d.value), Abs(d2.value))
    ELSE LET rp == RescalePair(h, d, d2)
         IN  IntCmp(Abs(rp[1].value), Abs(rp[2].value))

\* The heap with cell a set to v.
Store(h, a, v) == [b \in DOMAIN h |-> IF b = a THEN v ELSE h[b]]

\* NegInPlace without ensureInitialized: a nil buffer is dereferenced.
NegInPlaceUninitialized(h, d) ==
    IF d.value = NIL THEN Panic(h)
    ELSE Ret(Store(h, d.value, -h[d.value]), d)

\* d.Copy(): the same (value, exp) in a new buffer.
Copy(h, d) == Fresh(h, ensureInitialized(h, d))

\* d.NegInPlace(): negates the receiver's own buffer and returns it.
NegInPlace(h, d) ==
    IF d.value = NIL THEN Fresh(h, [value |-> 0, exp |-> d.exp])
    ELSE Ret(Store(h, d.value, -h[d.value]), d)

\* largestForm(integral, fractional): below powTabLen digits the result's
\* buffer IS the table entry.
largestForm(h, integral, fractional) ==
    LET digits == integral + fractional
    IN  IF digits < powTabLen
        THEN Ret(h, [value |-> limitsBigTab[digits], exp |-> Neg32(fractional)])
        ELSE IF digits < ninesLen
        THEN Fresh(h, [value |-> Pow10(digits) - 1, exp |-> Neg32(fractional)])
        ELSE Panic(h)

\* d.Clamp(integral, fractional)
Clamp(h, d, integral, fractional) ==
    LET lf == largestForm(h, integral, fractional)
    IN  IF lf.outcome = "panic" THEN lf
        ELSE LET limit == lf.out
             IN  IF CmpAbsV(lf.h, ensureInitialized(lf.h, d),
                            ensureInitialized(lf.h, limit)) <= 0
                 THEN Ret(lf.h, d)
                 ELSE IF d.value = NIL THEN Panic(lf.h)
                 ELSE IF Sgn(lf.h[d.value]) < 0
                 THEN NegInPlace(lf.h, limit)
                 ELSE Ret(lf.h, limit)

\* ---------------------------------------------------------- arithmetic
\* Outcomes of the unexported operations, on (value, exp) pairs.
Val(d) == [outcome |-> "ok", d |-> d, r |-> [value |-> 0, exp |-> 0]]
Val2(q, r) == [outcome |-> "ok", d |-> q, r |-> r]
Abort == [outcome |-> "panic", d |-> [value |-> 0, exp |-> 0],
          r |-> [value |-> 0, exp |-> 0]]

\* d.Add(d2) and d.sub(d2) on (value, exp) pairs.
AddV(h, d, d2) ==
    LET rp == RescalePair(h, d, d2)
    IN  [value |-> rp[1].value + rp[2].value, exp |-> rp[1].exp]
sub(h, d, d2) ==
    LET rp == RescalePair(h, d, d2)
    IN  [value |-> rp[1].value - rp[2].value, exp |-> rp[1].exp]

\* d.Add(d2): a new Decimal at the smaller exponent.
Add(h, d, d2) ==
    Fresh(h, AddV(h, ensureInitialized(h, d), ensureInitialized(h, d2)))

\* Sub without the exponent reset of a zero difference.
SubUnnormalised(h, d, d2) ==
    Fresh(h, sub(h, ensureInitialized(h, d), ensureInitialized(h, d2)))

\* d.Sub(d2): d.sub(d2), with exponent 0 when the difference is zero.
Sub(h, d, d2) ==
    LET rd == sub(h, ensureInitialized(h, d), ensureInitialized(h, d2))
    IN  Fresh(h, [value |-> rd.value,
                  exp |-> IF Sgn(rd.value) = 0 THEN 0 ELSE rd.exp])

\* Neg with big.Int.Abs in place of big.Int.Neg.
NegMagnitude(h, d) ==
    LET dv == ensureInitialized(h, d)
    IN  Fresh(h, [value |-> Abs(dv.value), exp |-> dv.exp])

\* d.Neg(): a new Decimal.
Neg(h, d) ==
    LET dv == ensureInitialized(h, d)
    IN  Fresh(h, [value |-> -dv.value, exp |-> dv.exp])

\* d.Cmp(d2), d.CmpAbs(d2) and d.Equal(d2) on Decimals of the heap.
Cmp(h, d, d2) == CmpV(h, ensureInitialized(h, d), ensureInitialized(h, d2))
CmpAbs(h, d, d2) == CmpAbsV(h, ensureInitialized(h, d), ensureInitialized(h, d2))
Equal(h, d, d2) == Cmp(h, d, d2) = 0

\* d.abs()
abs(d) == IF Sgn(d.value) >= 0 THEN d ELSE [value |-> Abs(d.value), exp |-> d.exp]

\* mul with the exponent sum taken in int32, with no range check.
mulWrapping(d, d2) ==
    Val([value |-> d.value * d2.value, exp |-> Add32(d.exp, d2.exp)])

\* d.mul(d2): the exponents are summed in int64 and the sum is checked.
mul(d, d2) ==
    IF SumOverflows(d.exp, d2.exp) THEN Abort
    ELSE Val([value |-> d.value * d2.value, exp |-> d.exp + d2.exp])

\* Mul without the test for a zero operand.
MulUnchecked(h, d, d2) ==
    LET m == mul(ensureInitialized(h, d), ensureInitialized(h, d2))
    IN  IF m.outcome = "panic" THEN Panic(h) ELSE Fresh(h, m.d)

\* d.Mul(d2): the package value Zero when either operand is zero.
Mul(h, d, d2) ==
    IF Sign(h, d) = 0 \/ Sign(h, d2) = 0 THEN Ret(h, Zero)
    ELSE LET m == mul(ensureInitialized(h, d), ensureInitialized(h, d2))
         IN  IF m.outcome = "panic" THEN Panic(h) ELSE Fresh(h, m.d)

\* roundBase10(digits): (digits + 8) / 9 in int32, the division truncating.
roundBase10(digits) == Quo(Add32(digits, 8), 9)

\* d.quoRem(d2, precision).  The exponent shift is formed in int32 and only
\* then widened, so the range check that follows compares an int32 value.
quoRem(h, d, d2, precision) ==
    IF Sgn(d2.value) = 0 THEN Abort
    ELSE LET scale == Neg32(precision)
             e == Sub32(Sub32(d.exp, d2.exp), scale)
         IN  IF e > MaxInt32 \/ e < MinInt32 THEN Abort
             ELSE LET aa == IF e < 0 THEN d.value
                            ELSE d.value * IntPow(h[tenInt], e)
                      bb == IF e < 0 THEN d2.value * IntPow(h[tenInt], Neg32(e))
                            ELSE d2.value
                      scalerest == IF e < 0 THEN d.exp ELSE Add32(scale, d2.exp)
                  IN  Val2([value |-> Quo(aa, bb), exp |-> scale],
                           [value |-> Rem(aa, bb), exp |-> scalerest])

\* d.divRound(d2, precision)
divRound(h, d, d2, precision) ==
    LET qr == quoRem(h, d, d2, precision)
    IN  IF qr.outcome = "panic" THEN Abort
        ELSE LET r2 == [value |-> 2 * Abs(qr.r.value),
                        exp |-> Add32(qr.r.exp, precision)]
                 c == CmpV(h, r2, abs(d2))
             IN  IF c < 0 THEN Val(qr.d)
                 ELSE IF Sgn(d.value) * Sgn(d2.value) < 0
                 THEN Val(sub(h, qr.d, [value |-> 1, exp |-> Neg32(precision)]))
                 ELSE Val(AddV(h, qr.d, [value |-> 1, exp |-> Neg32(precision)]))

\* d.div(d2)
div(h, d, d2) == divRound(h, d, d2, divisionPrecision)

\* d.truncate(precision)
truncate(h, d, precision) ==
    IF precision >= 0 /\ Neg32(precision) > d.exp
    THEN rescale(h, d, Neg32(precision))
    ELSE d

\* d.mod(d2)
mod(h, d, d2) ==
    LET dr == divRound(h, d, d2, Add32(Neg32(d.exp), 1))
    IN  IF dr.outcome = "panic" THEN Abort
        ELSE LET quo == truncate(h, dr.d, 0)
                 m == mul(d2, quo)
             IN  IF m.outcome = "panic" THEN Abort
                 ELSE Val(sub(h, d, m.d))

\* The scale as the plain sum of the two rounded scales and the increment.
DivScaleSum(d, d2, scaleIncr) ==
    Add32(Add32(roundBase10(Neg32(d.exp)) * 9, roundBase10(Neg32(d2.exp)) * 9),
          scaleIncr)

\* The result scale d.Div(d2, scaleIncr) asks quoRem for.
DivScale(d, d2, scaleIncr) ==
    LET s1 == Neg32(d.exp)
        s2 == Neg32(d2.exp)
        fracLeft == roundBase10(s1)
        fracRight == roundBase10(s2)
        incr == Sub32(scaleIncr,
                      Sub32(Add32(Sub32(fracLeft, s1), fracRight), s2))
        scaleIncr2 == IF incr < 0 THEN 0 ELSE incr
    IN  roundBase10(Add32(Add32(fracLeft, fracRight), scaleIncr2)) * 9

\* Div through the rounding division in place of quoRem.
DivRounding(h, d, d2, scaleIncr) ==
    IF Sign(h, d) = 0 THEN Ret(h, Zero)
    ELSE LET q == divRound(h, ensureInitialized(h, d), ensureInitialized(h, d2),
                           DivScale(d, d2, scaleIncr))
         IN  IF q.outcome = "panic" THEN Panic(h) ELSE Fresh(h, q.d)

\* d.Div(d2, scaleIncr): Zero for a zero dividend, else the quotient of quoRem.
Div(h, d, d2, scaleIncr) ==
    IF Sign(h, d) = 0 THEN Ret(h, Zero)
    ELSE LET qr == quoRem(h, ensureInitialized(h, d), ensureInitialized(h, d2),
                          DivScale(d, d2, scaleIncr))
         IN  IF qr.outcome = "panic" THEN Panic(h) ELSE Fresh(h, qr.d)

\* big.Int.DivMod by a positive modulus: Euclidean quotient and modulus.
DivModQ(a, b) == a \div b
DivModM(a, b) == a % b

\* d.Round(places): the receiver itself when it already has that exponent,
\* else a rescaled copy rounded in place.
Round(h, d, places) ==
    IF d.exp = Neg32(places) THEN Ret(h, d)
    ELSE LET ret == rescale(h, ensureInitialized(h, d), Sub32(Neg32(places), 1))
             v1 == IF Sgn(ret.value) < 0 THEN ret.value - h[fiveInt]
                   ELSE ret.value + h[fiveInt]
             q == DivModQ(v1, h[tenInt])
             m == DivModM(v1, h[tenInt])
             v2 == IF Sgn(q) < 0 /\ IntCmp(m, h[zeroInt]) # 0 THEN q + h[oneInt]
                   ELSE q
         IN  Fresh(h, [value |-> v2, exp |-> Add32(ret.exp, 1)])

\* ------------------------------------------------------------- inputs
\* Significands: a small interval and the digits that make rounding ties.
Mags == (-MaxMag..MaxMag) \cup {-5, 5}
SmallExps == -MaxExp..MaxExp
BigExps == {MaxInt32, -MaxInt32, MinInt32}
Exps == SmallExps \cup BigExps
Precs == -MaxPrec..MaxPrec
\* Arguments (divisors, factors).
DVs == [value : -MaxMag..MaxMag, exp : SmallExps \cup {MaxInt32}]

\* Whether 10^n times a value of magnitude v is within the model's integers.
Fits(n, v) == n >= 0 /\ n <= MaxShift /\ Abs(v) <= MaxInt32 \div Pow10(n)
\* Whether aligning d and d2 to their smaller exponent is within them.
AlignFits(d, d2) ==
    \/ d.exp = d2.exp
    \/ /\ ~SumOverflows(d.exp, Neg32(d2.exp)) /\ d2.exp # MinInt32
       /\ ~SumOverflows(d2.exp, Neg32(d.exp)) /\ d.exp # MinInt32
       /\ IF d.exp > d2.exp THEN Fits(d.exp - d2.exp, d.value)
          ELSE Fits(d2.exp - d.exp, d2.value)

\* ----------------------------------------------------------- the state
\* What a call gave back: a Decimal as its (value, exp), an integer, a text.
OfDecimal(r) ==
    [outcome |-> r.outcome,
     d |-> IF r.outcome = "ok" THEN ensureInitialized(r.h, r.out)
           ELSE [value |-> 0, exp |-> 0],
     n |-> 0, text |-> <<>>]
OfInt(n) == [outcome |-> "ok", d |-> [value |-> 0, exp |-> 0], n |-> n,
             text |-> <<>>]
OfText(t) == [outcome |-> "ok", d |-> [value |-> 0, exp |-> 0], n |-> 0,
              text |-> t]
\* No pair of calls on an uninitialised Decimal and on New(0, 0) made (every
\* later call lets go of their results).
NoUn == [op |-> "none", role |-> "receiver", p |-> 0, p2 |-> 0,
         nil |-> OfInt(0), zero |-> OfInt(0)]
\* Cells no Decimal of the state points to are dropped, and the caller's
\* cells are renamed in a fixed order.
Commit(op, d, d2, p, p2, r, xx) ==
    LET keep == (GlobalCells \cup {xx.value, r.out.value, r.out2.value})
                    \cap DOMAIN r.h
        ren(a) == IF a[1] # "dyn" THEN a
                  ELSE IF a = xx.value THEN Dyn(1)
                  ELSE IF a = r.out.value THEN Dyn(2)
                  ELSE Dyn(3)
        src(b) == CHOOSE a \in keep : ren(a) = b
    IN  /\ heap' = [b \in {ren(a) : a \in keep} |-> r.h[src(b)]]
        /\ x' = [xx EXCEPT !.value = ren(@)]
        /\ last' = [op |-> op, d |-> d, d2 |-> d2, p |-> p, p2 |-> p2,
                    outcome |-> r.outcome, n |-> r.n,
                    out |-> [r.out EXCEPT !.value = ren(@)],
                    out2 |-> [r.out2 EXCEPT !.value = ren(@)]]
        /\ txt' = txt
        /\ un' = NoUn
        /\ UNCHANGED <<poolVars, env>>

NoDV == [value |-> 0, exp |-> 0]
NoCall == [op |-> "none", d |-> NoDV, d2 |-> NoDV, p |-> 0, p2 |-> 0,
           outcome |-> "ok", n |-> 0, out |-> NoDec, out2 |-> NoDec]
\* The caller holds no result of an earlier call: calls are made one at a
\* time, each from such a state.
Idle == last.op = "none" /\ un.op = "none"
\* The (value, exp) seen through the caller's Decimal and the last results.
XV == ensureInitialized(heap, x)
OutV == ensureInitialized(heap, last.out)
Out2V == ensureInitialized(heap, last.out2)

\* The result of a parser: an error, or a Decimal as its (value, exp).
NoRes == [err |-> FALSE, d |-> NoDV]
\* No text operation made.
NoText == [op |-> "none", s |-> <<>>, d |-> NoDV, places |-> 0,
           text |-> <<>>, text2 |-> <<>>, res |-> NoRes, res2 |-> NoRes]

\* ------------------------------------------------ the grpcClient's state
\* Goroutines that call dialPool, tablet addresses, calls of Close.
MaxProcs == 2
MaxAddrs == 1
MaxCloses == 1
\* *concurrency: the capacity of each pool (a flag of the program).
concurrency == 2
Procs == 1..MaxProcs
Addrs == 1..MaxAddrs
\* A nil *tmc, a nil map, a mutex nobody holds.
NilTmc == 0
NilMap == [nil |-> TRUE, at |-> <<>>]
Unlocked == 0
\* A goroutine outside dialPool; outcome is how its last call ended.
NoProc == [pc |-> "idle", addr |-> 0, c |-> 0, i |-> 0, cc |-> 0,
           result |-> NilTmc, outcome |-> "none"]
\* The goroutine that calls Close, outside Close.
NoCloser == [pc |-> "idle", c |-> 0, todo |-> {}, calls |-> 0]
PoolInit ==
    /\ mu = Unlocked
    /\ rpcClientMap = NilMap
    /\ chans = <<>>
    /\ conns = <<>>
    /\ procs = [p \in Procs |-> NoProc]
    /\ closer = NoCloser

\* -------------------------------------------- the collation Environment
\* Collation IDs of the tables, and the charsets of the collations.
MaxColl == 2
CollIDs == 1..MaxColl
Charsets == {"utf8mb4", "binary"}
\* No collation (a nil Collation).
NoColl == 0
\* &colldefaults{}
NoDefaults == [Default |-> NoColl, Binary |-> NoColl]
\* One collation ID in globalVersionInfo and globalAllCollations: whether
\* it has a name in the version, whether the package implements it, and
\* for one it implements, its charset and whether it is binary; isdefault
\* is the bit of the version in vi.isdefault.
Missing == [alias |-> FALSE, supported |-> FALSE, charset |-> "binary",
            binary |-> FALSE, isdefault |-> FALSE]
Unsupported == [Missing EXCEPT !.alias = TRUE]
Infos ==
    {Missing, Unsupported} \cup
    [alias : {TRUE}, supported : {TRUE}, charset : Charsets,
     binary : BOOLEAN, isdefault : BOOLEAN]
Tables == [CollIDs -> Infos]
\* No Environment under construction.
NoEnv == [stage |-> "none", table |-> [id \in CollIDs |-> Missing],
          todo |-> {}, first |-> NoColl, byID |-> {}, unsupported |-> {},
          byCharset |-> <<>>, charset |-> "", answer |-> NoColl]

Init ==
    /\ PoolInit
    /\ env = NoEnv
    /\ heap = [a \in GlobalCells |-> InitialValue(a)]
    /\ x = NoDec
    /\ last = NoCall
    /\ txt = NoText
    /\ un = NoUn

\* x := New(value, exp)
DoNew ==
    \E v \in Mags, e \in Exps :
        /\ Idle
        /\ LET r == New(heap, v, e)
           IN  /\ heap' = [a \in GlobalCells \cup {Dyn(1)} |->
                             IF a = Dyn(1) THEN v ELSE heap[a]]
               /\ x' = [value |-> Dyn(1), exp |-> r.out.exp]
               /\ last' = NoCall
               /\ txt' = txt
               /\ un' = NoUn
               /\ UNCHANGED <<poolVars, env>>

\* The caller lets go of the result of the last call.
Drop ==
    /\ ~Idle
    /\ heap' = [a \in (GlobalCells \cup {x.value}) \cap DOMAIN heap |-> heap[a]]
    /\ x' = x
    /\ last' = NoCall
    /\ txt' = txt
    /\ un' = NoUn
    /\ UNCHANGED <<poolVars, env>>

\* x = <the Decimal the last call returned>: the caller keeps the result as
\* its Decimal (results within the range of the constructed operands).
Keep ==
    /\ ~Idle /\ last.outcome = "ok" /\ last.out.value # NIL
    /\ OutV.value \in Mags \cup {-9, 9} /\ OutV.exp \in Exps
    /\ LET a == last.out.value
           b == IF a[1] = "dyn" THEN Dyn(1) ELSE a
       IN  /\ heap' = [c \in GlobalCells \cup {b} |->
                         IF c = b THEN heap[a] ELSE heap[c]]
           /\ x' = [value |-> b, exp |-> last.out.exp]
    /\ last' = NoCall
    /\ txt' = txt
    /\ un' = NoUn
    /\ UNCHANGED <<poolVars, env>>

\* x.Clamp(integral, fractional)
DoClamp ==
    \E integral \in 0..MaxDigits, fractional \in 0..MaxDigits :
        /\ Idle
        /\ integral + fractional <= MaxDigits
        /\ AlignFits(XV, [value |-> Pow10(integral + fractional), exp |-> -fractional])
        /\ Commit("Clamp", XV, NoDV, integral, fractional,
                  Clamp(heap, x, integral, fractional), x)

\* x.NegInPlace(), or NegInPlace on the Decimal the last call returned
DoNegInPlace ==
    \/ /\ Idle
       /\ Commit("NegInPlace", XV, NoDV, 0, 0, NegInPlace(heap, x), x)
    \/ /\ ~Idle /\ last.op # "NegInPlace"
       /\ last.outcome = "ok" /\ last.out.value # NIL
       /\ Commit("NegInPlace", OutV, NoDV, 1, 0, NegInPlace(heap, last.out), x)

\* Whether quoRem(d, d2, precision) forms only powers of ten within range.
QuoRemFits(d, d2, precision) ==
    \/ d2.value = 0
    \/ LET e == Sub32(Sub32(d.exp, d2.exp), Neg32(precision))
       IN  /\ e # MinInt32
           /\ IF e < 0 THEN Fits(-e, 2 * d2.value) ELSE Fits(e, 2 * d.value)
\* ... and the comparison of the doubled remainder with |d2| that follows.
DivRoundFits(d, d2, precision) ==
    /\ QuoRemFits(d, d2, precision)
    /\ \/ d2.value = 0
       \/ LET qr == quoRem(heap, d, d2, precision)
          IN  AlignFits([value |-> 2 * Abs(qr.r.value),
                         exp |-> Add32(qr.r.exp, precision)], d2)

\* The two results of a call on (value, exp) pairs, as new Decimals.
Fresh2(h, v) ==
    IF v.outcome = "panic" THEN Panic(h)
    ELSE LET a == Fresh(h, v.d)
             b == Fresh(a.h, v.r)
         IN  Ret2(b.h, a.out, b.out)
Fresh1(h, v) == IF v.outcome = "panic" THEN Panic(h) ELSE Fresh(h, v.d)

\* x.quoRem(d2, precision)
DoQuoRem ==
    \E d2 \in DVs, precision \in Precs :
        /\ Idle
        /\ QuoRemFits(XV, d2, precision)
        /\ Commit("quoRem", XV, d2, precision, 0,
                  Fresh2(heap, quoRem(heap, XV, d2, precision)), x)

\* x.divRound(d2, precision)
DoDivRound ==
    \E d2 \in DVs, precision \in Precs :
        /\ Idle
        /\ DivRoundFits(XV, d2, precision)
        /\ Commit("divRound", XV, d2, precision, 0,
                  Fresh1(heap, divRound(heap, XV, d2, precision)), x)

\* x.div(d2): the fixed precision of 16 digits is within range only for a
\* divisor of exponent 9 or more above the dividend's.
DoDiv0 ==
    \E v \in Mags, e \in {0, 9} :
        LET d2 == [value |-> v, exp |-> e]
        IN  /\ Idle /\ x.exp \in SmallExps
            /\ DivRoundFits(XV, d2, divisionPrecision)
            /\ Commit("div", XV, d2, divisionPrecision, 0,
                      Fresh1(heap, div(heap, XV, d2)), x)

\* x.mod(d2)
DoMod ==
    \E d2 \in DVs :
        /\ Idle /\ x.exp \in SmallExps /\ d2.exp \in SmallExps
        /\ DivRoundFits(XV, d2, Add32(Neg32(x.exp), 1))
        /\ Commit("mod", XV, d2, 0, 0, Fresh1(heap, mod(heap, XV, d2)), x)

\* x.Div(d2, scaleIncr)
DoDiv ==
    \E d2 \in DVs, scaleIncr \in 0..MaxPrec :
        /\ Idle
        /\ \/ XV.value = 0
           \/ QuoRemFits(XV, d2, DivScale(XV, d2, scaleIncr))
        /\ LET r0 == New(heap, d2.value, d2.exp)
           IN  Commit("Div", XV, d2, scaleIncr, 0,
                      Div(r0.h, x, r0.out, scaleIncr), x)

\* x.Mul(d2)
DoMul ==
    \E d2 \in DVs :
        /\ Idle
        /\ LET r0 == New(heap, d2.value, d2.exp)
           IN  Commit("Mul", XV, d2, 0, 0, Mul(r0.h, x, r0.out), x)

\* Whether d.rescale(exp) forms a power of ten within the model's integers.
RescaleFits(d, exp) ==
    \/ exp = d.exp
    \/ /\ exp # MinInt32 /\ d.exp # MinInt32
       /\ ~SumOverflows(exp, -d.exp) /\ ~SumOverflows(d.exp, -exp)
       /\ IF exp > d.exp THEN exp - d.exp <= MaxShift
          ELSE Fits(d.exp - exp, 2 * d.value)

\* x.Round(places)
DoRound ==
    \E places \in Precs \cup {MinInt32} :
        /\ Idle
        /\ \/ x.exp = Neg32(places)
           \/ RescaleFits(XV, Sub32(Neg32(places), 1))
        /\ Commit("Round", XV, NoDV, places, 0, Round(heap, x, places), x)

\* x.Add(d2)
DoAdd ==
    \E d2 \in DVs :
        /\ Idle
        /\ AlignFits(XV, d2)
        /\ LET r0 == New(heap, d2.value, d2.exp)
           IN  Commit("Add", XV, d2, 0, 0, Add(r0.h, x, r0.out), x)

\* x.Sub(d2)
DoSub ==
    \E d2 \in DVs :
        /\ Idle
        /\ AlignFits(XV, d2)
        /\ LET r0 == New(heap, d2.value, d2.exp)
           IN  Commit("Sub", XV, d2, 0, 0, Sub(r0.h, x, r0.out), x)

\* x.Neg()
DoNeg ==
    /\ Idle
    /\ Commit("Neg", XV, NoDV, 0, 0, Neg(heap, x), x)

\* x.Add(Zero), and whether the sum is Equal to x
DoAddZero ==
    /\ Idle
    /\ AlignFits(XV, ensureInitialized(heap, Zero))
    /\ LET r == Add(heap, x, Zero)
       IN  Commit("AddZero", XV, ensureInitialized(heap, Zero), 0, 0,
                  [r EXCEPT !.n = IF Equal(r.h, r.out, x) THEN 1 ELSE 0], x)

\* x.Add(x.Neg()), and whether the sum is Equal to Zero
DoAddNeg ==
    /\ Idle
    /\ AlignFits(XV, ensureInitialized(heap, Zero))
    /\ LET ng == Neg(heap, x)
           r == Add(ng.h, x, ng.out)
       IN  Commit("AddNeg", XV, ensureInitialized(ng.h, ng.out), 0, 0,
                  [r EXCEPT !.n = IF Equal(r.h, r.out, Zero) THEN 1 ELSE 0], x)



\* ------------------------------------------------------------ formatting
\* Texts are sequences of one-character strings.
Digits == <<"0", "1", "2", "3", "4", "5", "6", "7", "8", "9">>
IsDigit(c) == \E i \in 1..10 : Digits[i] = c
DigitVal(c) == (CHOOSE i \in 1..10 : Digits[i] = c) - 1
\* big.Int.Append(buf, 10): the decimal digits, after a '-' when negative.
RECURSIVE NatText(_)
NatText(n) ==
    IF n < 10 THEN <<Digits[n + 1]>>
    ELSE NatText(n \div 10) \o <<Digits[(n % 10) + 1]>>
IntText(v) == IF v < 0 THEN <<"-">> \o NatText(-v) ELSE NatText(v)
Zeros(n) == [i \in 1..n |-> "0"]
\* The text without its trailing '0' characters.
RECURSIVE TrimZeros(_)
TrimZeros(t) ==
    IF Len(t) > 0 /\ t[Len(t)] = "0" THEN TrimZeros(SubSeq(t, 1, Len(t) - 1))
    ELSE t

\* format without the zeros between the point and a short run of digits.
formatUnpadded(h, d, trimTrailingZeros) ==
    IF d.exp >= 0 THEN IntText(rescale(h, d, 0).value)
    ELSE LET rawfmt == NatText(Abs(d.value))
             sign == IF Sgn(d.value) < 0 THEN <<"-">> ELSE <<>>
             n == Len(rawfmt)
             k == -d.exp
             intPart == IF n > k THEN SubSeq(rawfmt, 1, n - k) ELSE <<"0">>
             fractionalPart == IF n > k THEN SubSeq(rawfmt, n - k + 1, n)
                               ELSE rawfmt
             shown == IF trimTrailingZeros THEN TrimZeros(fractionalPart)
                      ELSE fractionalPart
         IN  sign \o intPart \o
                 (IF Len(shown) > 0 THEN <<".">> \o shown ELSE <<>>)

\* d.format(buf, trimTrailingZeros), on the (value, exp) pair d.
format(h, d, trimTrailingZeros) ==
    IF d.exp >= 0 THEN IntText(rescale(h, d, 0).value)
    ELSE LET rawfmt == NatText(Abs(d.value))
             sign == IF Sgn(d.value) < 0 THEN <<"-">> ELSE <<>>
             n == Len(rawfmt)
             k == -d.exp
             intPart == IF n > k THEN SubSeq(rawfmt, 1, n - k) ELSE <<"0">>
             fractionalPart == IF n > k THEN SubSeq(rawfmt, n - k + 1, n)
                               ELSE Zeros(k - n) \o rawfmt
             shown == IF trimTrailingZeros THEN TrimZeros(fractionalPart)
                      ELSE fractionalPart
         IN  sign \o intPart \o
                 (IF Len(shown) > 0 THEN <<".">> \o shown ELSE <<>>)

\* String with every fractional digit kept.
StringUntrimmed(h, d) == format(h, d, FALSE)

\* d.String() and d.StringMySQL()
String(h, d) == format(h, d, TRUE)
\* d.StringFixed(places) and d.FormatMySQL(frac), d a Decimal of the heap:
\* the text of d.Round(places), untrimmed.
StringFixed(h, d, places) ==
    LET rounded == Round(h, d, places)
    IN  format(rounded.h, ensureInitialized(rounded.h, rounded.out), FALSE)
FormatMySQL(h, d, frac) ==
    LET rounded == Round(h, d, frac)
    IN  format(rounded.h, ensureInitialized(rounded.h, rounded.out), FALSE)

\* StringMySQL with the trimming of String.
StringMySQLTrimmed(h, d) == format(h, d, TRUE)
StringMySQL(h, d) == format(h, d, FALSE)

\* --------------------------------------------------------------- parsing
Err == [err |-> TRUE, d |-> NoDV]
Ok(value, exp) == [err |-> FALSE, d |-> [value |-> value, exp |-> exp]]
\* bytes.IndexByte, counted from 1; 0 when the byte is absent.
IndexByte(t, c) ==
    IF \E i \in 1..Len(t) : t[i] = c
    THEN CHOOSE i \in 1..Len(t) : t[i] = c /\ \A j \in 1..(i - 1) : t[j] # c
    ELSE 0
\* The number a run of digits stands for, and its negative.
RECURSIVE DigitsValue(_)
DigitsValue(t) ==
    IF Len(t) = 0 THEN 0
    ELSE 10 * DigitsValue(SubSeq(t, 1, Len(t) - 1)) + DigitVal(t[Len(t)])
RECURSIVE NegDigitsValue(_)
NegDigitsValue(t) ==
    IF Len(t) = 0 THEN 0
    ELSE 10 * NegDigitsValue(SubSeq(t, 1, Len(t) - 1)) - DigitVal(t[Len(t)])
\* The grammar of strconv.ParseInt and big.Int.SetString in base 10: one
\* optional sign, then one digit or more and nothing else.
Unsigned(t) == IF Len(t) > 0 /\ t[1] \in {"+", "-"} THEN Tail(t) ELSE t
IsSignedDigits(t) ==
    Len(Unsigned(t)) > 0 /\ \A i \in 1..Len(Unsigned(t)) : IsDigit(Unsigned(t)[i])
SignedValue(t) ==
    IF t[1] = "-" THEN NegDigitsValue(Unsigned(t)) ELSE DigitsValue(Unsigned(t))
\* big.Int.SetString(t, 10) and strconv.ParseInt(t, 10, 64) on a text of at
\* most 18 bytes, which cannot leave int64.
SetString(t) == IF IsSignedDigits(t) THEN Ok(SignedValue(t), 0) ELSE Err
ParseInt64(t) == IF IsSignedDigits(t) THEN Ok(SignedValue(t), 0) ELSE Err
\* Digits without their leading zeros, and a <= b for runs of equal length.
RECURSIVE StripZeros(_)
StripZeros(t) == IF Len(t) > 1 /\ t[1] = "0" THEN StripZeros(Tail(t)) ELSE t
RECURSIVE DigitsLeq(_, _)
DigitsLeq(a, b) ==
    IF Len(a) = 0 THEN TRUE
    ELSE IF a[1] # b[1] THEN DigitVal(a[1]) < DigitVal(b[1])
    ELSE DigitsLeq(Tail(a), Tail(b))
\* strconv.ParseInt(t, 10, 32): a syntax error, or a range error when the
\* number is outside int32.
ParseInt32(t) ==
    IF ~IsSignedDigits(t) THEN Err
    ELSE LET m == StripZeros(Unsigned(t))
             top == IF t[1] = "-" THEN NatText(MaxInt32 \div 10) \o <<"8">>
                    ELSE NatText(MaxInt32)
         IN  IF Len(m) > Len(top) \/ (Len(m) = Len(top) /\ ~DigitsLeq(m, top))
             THEN Err
             ELSE Ok(SignedValue(t), 0)

\* parseDecimal64(s): 64-bit accumulation; err is "" (none), "syntax" or
\* "overflow".  n >= cutoff, for cutoff = MaxUint64/10 + 1 =
\* 1844674407370955162, is compared in two halves of nine digits.
GeCutoff(n) ==
    \/ n \div Pow10(9) > 1844674407
    \/ n \div Pow10(9) = 1844674407 /\ n % Pow10(9) >= 370955162
\* Whether n*10 + d wraps in uint64, for n below the cutoff.
Wraps64(n, d) ==
    n \div Pow10(9) = 1844674407 /\ n % Pow10(9) = 370955161 /\ d >= 6
RECURSIVE parseDecimal64From(_, _, _, _)
parseDecimal64From(t, i, n, dot) ==
    IF i > Len(t)
    THEN [err |-> "", d |-> [value |-> n,
                             exp |-> IF dot # 0 THEN -(Len(t) - dot) ELSE 0]]
    ELSE IF t[i] = "."
    THEN (IF dot > 0 THEN [err |-> "syntax", d |-> NoDV]
          ELSE parseDecimal64From(t, i + 1, n, i))
    ELSE IF IsDigit(t[i])
    THEN (IF GeCutoff(n) \/ Wraps64(n, DigitVal(t[i]))
          THEN [err |-> "overflow", d |-> NoDV]
          ELSE parseDecimal64From(t, i + 1, n * 10 + DigitVal(t[i]), dot))
    ELSE [err |-> "syntax", d |-> NoDV]
parseDecimal64(t) == parseDecimal64From(t, 1, 0, 0)

\* The arbitrary-precision path with the exponent taken from the position of
\* the point instead of the number of digits after it.
NewFromMySQLSlowFromFront(t, neg) ==
    LET pIndex == IndexByte(t, ".")
        rest == SubSeq(t, pIndex + 1, Len(t))
        intString == IF pIndex > 0 THEN SubSeq(t, 1, pIndex - 1) \o rest ELSE t
        exp == IF pIndex > 0 THEN -(pIndex - 1) ELSE 0
        dValue == SetString(intString)
    IN  IF pIndex > 0 /\ IndexByte(rest, ".") # 0 THEN Err
        ELSE IF dValue.err THEN Err
        ELSE Ok(IF neg THEN -dValue.d.value ELSE dValue.d.value, exp)

\* The arbitrary-precision path of NewFromMySQL, on the text after the sign.
NewFromMySQLSlow(t, neg) ==
    LET pIndex == IndexByte(t, ".")
        rest == SubSeq(t, pIndex + 1, Len(t))
        intString == IF pIndex > 0 THEN SubSeq(t, 1, pIndex - 1) \o rest ELSE t
        exp == IF pIndex > 0 THEN -Len(rest) ELSE 0
        dValue == SetString(intString)
    IN  IF pIndex > 0 /\ IndexByte(rest, ".") # 0 THEN Err
        ELSE IF dValue.err THEN Err
        ELSE Ok(IF neg THEN -dValue.d.value ELSE dValue.d.value, exp)

\* NewFromMySQL(s)
NewFromMySQL(s) ==
    LET neg == Len(s) > 0 /\ s[1] = "-"
        t == Unsigned(s)
    IN  IF Len(t) = 0 THEN Err
        ELSE IF Len(t) <= fastPathLen
        THEN LET dec == parseDecimal64(t)
             IN  IF dec.err = ""
                 THEN Ok(IF neg THEN -dec.d.value ELSE dec.d.value, dec.d.exp)
                 ELSE IF dec.err # "overflow" THEN Err
                 ELSE NewFromMySQLSlow(t, neg)
        ELSE NewFromMySQLSlow(t, neg)

\* strings.IndexAny(value, "Ee"), counted from 1; 0 when absent.
IndexAnyEe(t) ==
    IF \E i \in 1..Len(t) : t[i] \in {"E", "e"}
    THEN CHOOSE i \in 1..Len(t) :
             t[i] \in {"E", "e"} /\ \A j \in 1..(i - 1) : t[j] \notin {"E", "e"}
    ELSE 0

\* NewFromString(value)
NewFromString(value) ==
    LET eIndex == IndexAnyEe(value)
        expInt == IF eIndex # 0
                  THEN ParseInt32(SubSeq(value, eIndex + 1, Len(value)))
                  ELSE Ok(0, 0)
        v == IF eIndex # 0 THEN SubSeq(value, 1, eIndex - 1) ELSE value
        pIndex == IndexByte(v, ".")
        rest == SubSeq(v, pIndex + 1, Len(v))
        intString == IF pIndex = 0 THEN v ELSE SubSeq(v, 1, pIndex - 1) \o rest
        fracExp == IF pIndex = 0 THEN 0 ELSE -Len(rest)
        dValue == IF Len(intString) <= fastPathLen THEN ParseInt64(intString)
                  ELSE SetString(intString)
    IN  IF expInt.err THEN Err
        ELSE IF pIndex # 0 /\ IndexByte(rest, ".") # 0 THEN Err
        ELSE IF dValue.err THEN Err
        ELSE IF SumOverflows(expInt.d.value, fracExp) THEN Err
        ELSE Ok(dValue.d.value, expInt.d.value + fracExp)

\* ------------------------------------------------- the text operations
\* Characters of the input texts: signs, the point, digits, and a byte that
\* is none of them.
TextChars == {"+", "-", ".", "0", "5", "a"}
Texts(C, n) == UNION {[1..k -> C] : k \in 0..n}
\* A run of zeros one byte short of the 18 bytes of the fast paths, so that
\* the texts built around it fall on both sides of that length.
Pad == Zeros(fastPathLen - 1)
LongTexts ==
    {pre \o Pad \o post : pre \in Texts({"+", "-", "."}, MaxLen - 1),
                          post \in Texts(TextChars, 2)}
MySQLInputs == Texts(TextChars, MaxLen) \cup LongTexts
\* Exponent suffixes: none, well-formed, malformed, and at the int32 limits.
ExpTokens ==
    {<<>>, <<"e", "1">>, <<"E", "-", "1">>, <<"e", "+", "0">>, <<"e">>,
     <<"e", "a">>, <<"e", "1", "e", "1">>,
     <<"e">> \o NatText(MaxInt32),
     <<"e">> \o NatText(MaxInt32 \div 10) \o <<"8">>,
     <<"e", "-">> \o NatText(MaxInt32 \div 10) \o <<"8">>,
     <<"e", "-">> \o NatText(MaxInt32 \div 10) \o <<"9">>}
StringInputs ==
    {m \o e : m \in Texts({"-", ".", "5"}, MaxLen), e \in ExpTokens}
        \cup Texts(TextChars, MaxLen) \cup LongTexts
\* Decimals to format: the constructed operands, the examples of the
\* documentation, and exponents whose text is longer than the fast paths.
\* Places to round a text to.
FixedPlaces == -1..MaxLen
TextDVs ==
    [value : Mags \cup {1200, -12345},
     exp : (-MaxLen..MaxExp) \cup {-fastPathLen, -fastPathLen - 1}]

\* NewFromMySQL(s), and the arbitrary-precision path on the same s
DoNewFromMySQL ==
    \E s \in MySQLInputs :
        /\ txt.op = "none"
        /\ txt' = [NoText EXCEPT !.op = "NewFromMySQL", !.s = s,
                                 !.res = NewFromMySQL(s),
                                 !.res2 = IF Len(Unsigned(s)) = 0 THEN Err
                                          ELSE NewFromMySQLSlow(Unsigned(s),
                                                                s[1] = "-")]
        /\ UNCHANGED <<heap, x, last, un, poolVars, env>>

\* NewFromString(s)
DoNewFromString ==
    \E s \in StringInputs :
        /\ txt.op = "none"
        /\ txt' = [NoText EXCEPT !.op = "NewFromString", !.s = s,
                                 !.res = NewFromString(s)]
        /\ UNCHANGED <<heap, x, last, un, poolVars, env>>

\* NewFromString(d.String()) and NewFromMySQL(d.StringMySQL())
DoString ==
    \E d \in TextDVs :
        /\ txt.op = "none"
        /\ txt' = [NoText EXCEPT !.op = "String", !.d = d,
                                 !.text = String(heap, d),
                                 !.text2 = StringMySQL(heap, d),
                                 !.res = NewFromString(String(heap, d)),
                                 !.res2 = NewFromMySQL(StringMySQL(heap, d))]
        /\ UNCHANGED <<heap, x, last, un, poolVars, env>>

\* New(value, exp).StringFixed(places) and .FormatMySQL(places)
DoStringFixed ==
    \E d \in TextDVs, places \in FixedPlaces :
        /\ txt.op = "none"
        /\ d.exp = -places \/ RescaleFits(d, -places - 1)
        /\ LET r == New(heap, d.value, d.exp)
           IN  txt' = [NoText EXCEPT !.op = "StringFixed", !.d = d,
                                    !.places = places,
                                    !.text = StringFixed(r.h, r.out, places),
                                    !.text2 = FormatMySQL(r.h, r.out, places)]
        /\ UNCHANGED <<heap, x, last, un, poolVars, env>>

\* The caller lets go of the text and the parsed Decimal.
DropText ==
    /\ txt.op # "none"
    /\ txt' = NoText
    /\ UNCHANGED <<heap, x, last, un, poolVars, env>>

\* d.Int64(): the integer part, and whether it fits an int64 (every
\* significand of the model does).
Int64(h, d) == rescale(h, ensureInitialized(h, d), 0).value

\* The public operations, by name: receiver rcv, argument arg (for the
\* operations that take one), integer arguments p and p2.
UnaryOps == {"Neg", "NegInPlace", "Round", "Clamp", "Sign", "Copy", "Int64",
             "String", "StringFixed", "StringMySQL"}
BinaryOps == {"Add", "Sub", "Mul", "Div", "Cmp", "CmpAbs", "Equal"}
Call(op, h, rcv, arg, p, p2) ==
    CASE op = "Add" -> OfDecimal(Add(h, rcv, arg))
      [] op = "Sub" -> OfDecimal(Sub(h, rcv, arg))
      [] op = "Mul" -> OfDecimal(Mul(h, rcv, arg))
      [] op = "Div" -> OfDecimal(Div(h, rcv, arg, p))
      [] op = "Neg" -> OfDecimal(Neg(h, rcv))
      [] op = "NegInPlace" -> OfDecimal(NegInPlace(h, rcv))
      [] op = "Round" -> OfDecimal(Round(h, rcv, p))
      [] op = "Clamp" -> OfDecimal(Clamp(h, rcv, p, p2))
      [] op = "Copy" -> OfDecimal(Copy(h, rcv))
      [] op = "Cmp" -> OfInt(Cmp(h, rcv, arg))
      [] op = "CmpAbs" -> OfInt(CmpAbs(h, rcv, arg))
      [] op = "Equal" -> OfInt(IF Equal(h, rcv, arg) THEN 1 ELSE 0)
      [] op = "Sign" -> OfInt(Sign(h, rcv))
      [] op = "Int64" -> OfInt(Int64(h, rcv))
      [] op = "String" -> OfText(String(h, ensureInitialized(h, rcv)))
      [] op = "StringMySQL" -> OfText(StringMySQL(h, ensureInitialized(h, rcv)))
      [] op = "StringFixed" -> OfText(StringFixed(h, rcv, p))

\* Whether the call forms only powers of ten within the model's integers,
\* other being the operand that is not the zero under test.
CallFits(op, role, other, p) ==
    /\ op \in BinaryOps => AlignFits(other, [value |-> 0, exp |-> 0])
    /\ op \in {"Round", "StringFixed"} =>
           RescaleFits([value |-> 0, exp |-> 0], Sub32(Neg32(p), 1))

\* One public operation with the uninitialised Decimal as receiver or as
\* argument, and the same operation with New(0, 0) in its place; the other
\* operand of a binary operation is x.
DoUninit ==
    \E op \in UnaryOps \cup BinaryOps, role \in {"receiver", "argument"},
       p \in Precs, p2 \in 0..MaxDigits :
        /\ Idle
        /\ role = "argument" => op \in BinaryOps
        /\ op \notin {"Div", "Round", "Clamp", "StringFixed"} => p = 0
        /\ op = "Div" => p >= 0
        /\ op = "Clamp" => p >= 0 /\ p + p2 <= MaxDigits
        /\ op # "Clamp" => p2 = 0
        /\ CallFits(op, role, XV, p)
        /\ LET z == New(heap, 0, 0)
               onNil == IF role = "receiver" THEN Call(op, heap, NoDec, x, p, p2)
                        ELSE Call(op, heap, x, NoDec, p, p2)
               onZero == IF role = "receiver" THEN Call(op, z.h, z.out, x, p, p2)
                         ELSE Call(op, z.h, x, z.out, p, p2)
           IN  un' = [op |-> op, role |-> role, p |-> p, p2 |-> p2,
                      nil |-> onNil, zero |-> onZero]
        /\ UNCHANGED <<heap, x, last, txt, poolVars, env>>

Next ==
    \/ DoNew
    \/ Drop
    \/ Keep
    \/ DoClamp
    \/ DoNegInPlace
    \/ DoQuoRem
    \/ DoDivRound
    \/ DoDiv0
    \/ DoMod
    \/ DoDiv
    \/ DoMul
    \/ DoRound
    \/ DoAdd
    \/ DoSub
    \/ DoNeg
    \/ DoAddZero
    \/ DoAddNeg
    \/ DoUninit

Spec == Init /\ [][Next]_vars

NextText ==
    \/ DoNewFromMySQL
    \/ DoNewFromString
    \/ DoString
    \/ DoStringFixed
    \/ DropText

SpecText == Init /\ [][NextText]_vars

\* ------------------------------------------------------ the grpcClient
\* The entries of rpcClientMap; a nil map has none.
Entries(m) == DOMAIN m.at
\* make(chan *tmc, *concurrency)
NewChan == [buf |-> <<>>, closed |-> FALSE]
\* A connection Dial returned: how often it was closed, and whether it was
\* ever placed in a pool.
NewConn == [closes |-> 0, placed |-> FALSE]
\* The goroutine's call ends: with a client, an error or a panic.
Return(p, outcome) == [NoProc EXCEPT !.outcome = outcome]
\* The record f with its entry k set to v.
Put(f, k, v) == [j \in DOMAIN f |-> IF j = k THEN v ELSE f[j]]

\* Goroutine p calls dialPool for a tablet address; SecureDialOption may
\* return an error.
DialPoolStart(p) ==
    \E addr \in Addrs, optErr \in BOOLEAN :
        /\ procs[p].pc = "idle"
        /\ procs' = Put(procs, p, IF optErr THEN Return(p, "error")
                                  ELSE [NoProc EXCEPT !.pc = "lock", !.addr = addr])
        /\ UNCHANGED <<mu, rpcClientMap, chans, conns, closer, decimalVars, env>>

\* client.mu.Lock() ... client.mu.Unlock(): the pool of the address is looked
\* up, and made and entered in the map when there is none.
DialPoolLock(p) ==
    /\ procs[p].pc = "lock"
    /\ mu = Unlocked
    /\ LET addr == procs[p].addr
       IN  IF addr \in Entries(rpcClientMap)
           THEN /\ procs' = Put(procs, p, [procs[p] EXCEPT !.pc = "recv",
                                                         !.c = rpcClientMap.at[addr]])
                /\ UNCHANGED <<rpcClientMap, chans>>
           ELSE /\ chans' = Append(chans, NewChan)
                /\ rpcClientMap' =
                       [nil |-> FALSE,
                        at |-> [a \in Entries(rpcClientMap) \cup {addr} |->
                                  IF a = addr THEN Len(chans) + 1
                                  ELSE rpcClientMap.at[a]]]
                /\ procs' = Put(procs, p, [procs[p] EXCEPT !.pc = "dial",
                                                         !.c = Len(chans) + 1,
                                                         !.i = 0])
    /\ UNCHANGED <<mu, conns, closer, decimalVars, env>>

\* cc, err := grpcclient.Dial(...) in the loop that fills the pool: an error
\* ends the call and leaves the pool as filled so far.
DialPoolDial(p) ==
    \E ok \in BOOLEAN :
        /\ procs[p].pc = "dial"
        /\ IF ok
           THEN /\ conns' = Append(conns, NewConn)
                /\ procs' = Put(procs, p, [procs[p] EXCEPT !.pc = "fill",
                                                         !.cc = Len(conns) + 1])
           ELSE /\ procs' = Put(procs, p, Return(p, "error"))
                /\ conns' = conns
        /\ UNCHANGED <<mu, rpcClientMap, chans, closer, decimalVars, env>>

\* c <- &tmc{cc: cc, ...} in the loop that fills the pool; a send on a closed
\* channel panics, a send on a full one waits.
DialPoolFill(p) ==
    /\ procs[p].pc = "fill"
    /\ LET c == procs[p].c
           i == procs[p].i + 1
       IN  IF chans[c].closed
           THEN /\ procs' = Put(procs, p, Return(p, "panic"))
                /\ UNCHANGED <<chans, conns>>
           ELSE /\ Len(chans[c].buf) < concurrency
                /\ chans' = Put(chans, c, [chans[c] EXCEPT
                                              !.buf = Append(@, procs[p].cc)])
                /\ conns' = Put(conns, procs[p].cc,
                                [conns[procs[p].cc] EXCEPT !.placed = TRUE])
                /\ procs' = Put(procs, p,
                                [procs[p] EXCEPT !.i = i, !.cc = 0,
                                     !.pc = IF i < concurrency THEN "dial"
                                            ELSE "recv"])
    /\ UNCHANGED <<mu, rpcClientMap, closer, decimalVars, env>>

\* result := <-c: the first entry of the pool; nil at once from a closed and
\* empty channel; a wait on an open and empty one.
DialPoolRecv(p) ==
    /\ procs[p].pc = "recv"
    /\ LET c == procs[p].c
       IN  IF Len(chans[c].buf) > 0
           THEN /\ procs' = Put(procs, p, [procs[p] EXCEPT !.pc = "send",
                                              !.result = Head(chans[c].buf)])
                /\ chans' = Put(chans, c, [chans[c] EXCEPT !.buf = Tail(@)])
           ELSE /\ chans[c].closed
                /\ procs' = Put(procs, p, [procs[p] EXCEPT !.pc = "send",
                                                         !.result = NilTmc])
                /\ chans' = chans
    /\ UNCHANGED <<mu, rpcClientMap, conns, closer, decimalVars, env>>

\* c <- result; return result.client, nil
DialPoolSend(p) ==
    /\ procs[p].pc = "send"
    /\ LET c == procs[p].c
       IN  IF chans[c].closed
           THEN /\ procs' = Put(procs, p, Return(p, "panic"))
                /\ chans' = chans
           ELSE /\ Len(chans[c].buf) < concurrency
                /\ chans' = Put(chans, c, [chans[c] EXCEPT
                                              !.buf = Append(@, procs[p].result)])
                /\ procs' = Put(procs, p,
                                Return(p, IF procs[p].result = NilTmc
                                          THEN "panic" ELSE "ok"))
    /\ UNCHANGED <<mu, rpcClientMap, conns, closer, decimalVars, env>>

\* Close(): client.mu.Lock(), and the range over the map begins.
CloseLock ==
    /\ closer.pc = "idle"
    /\ closer.calls < MaxCloses
    /\ mu = Unlocked
    /\ mu' = 1
    /\ closer' = [closer EXCEPT !.pc = "range", !.todo = Entries(rpcClientMap),
                                !.calls = @ + 1]
    /\ UNCHANGED <<rpcClientMap, chans, conns, procs, decimalVars, env>>

\* close(c) for the next entry of the map, in any order.
CloseChan ==
    /\ closer.pc = "range"
    /\ \E addr \in closer.todo :
        LET c == rpcClientMap.at[addr]
        IN  /\ chans' = Put(chans, c, [chans[c] EXCEPT !.closed = TRUE])
            /\ closer' = [closer EXCEPT !.pc = "drain", !.c = c,
                                        !.todo = @ \ {addr}]
    /\ UNCHANGED <<mu, rpcClientMap, conns, procs, decimalVars, env>>

\* for ch := range c { ch.cc.Close() }: one entry, or the end of the range.
CloseDrain ==
    /\ closer.pc = "drain"
    /\ LET c == closer.c
       IN  IF Len(chans[c].buf) > 0
           THEN LET ch == Head(chans[c].buf)
                IN  /\ chans' = Put(chans, c, [chans[c] EXCEPT !.buf = Tail(@)])
                    /\ conns' = Put(conns, ch,
                                    [conns[ch] EXCEPT !.closes = @ + 1])
                    /\ closer' = closer
           ELSE /\ closer' = [closer EXCEPT !.pc = "range", !.c = 0]
                /\ UNCHANGED <<chans, conns>>
    /\ UNCHANGED <<mu, rpcClientMap, procs, decimalVars, env>>

\* client.rpcClientMap = nil, the deferred Unlock, and Close returns.
CloseUnlock ==
    /\ closer.pc = "range"
    /\ closer.todo = {}
    /\ rpcClientMap' = NilMap
    /\ mu' = Unlocked
    /\ closer' = [closer EXCEPT !.pc = "idle"]
    /\ UNCHANGED <<chans, conns, procs, decimalVars, env>>

DialPoolStep(p) ==
    \/ DialPoolLock(p)
    \/ DialPoolDial(p)
    \/ DialPoolFill(p)
    \/ DialPoolRecv(p)
    \/ DialPoolSend(p)

NextPool ==
    \/ \E p \in Procs : DialPoolStart(p)
    \/ \E p \in Procs : DialPoolLock(p)
    \/ \E p \in Procs : DialPoolDial(p)
    \/ \E p \in Procs : DialPoolFill(p)
    \/ \E p \in Procs : DialPoolRecv(p)
    \/ \E p \in Procs : DialPoolSend(p)
    \/ CloseLock
    \/ CloseChan
    \/ CloseDrain
    \/ CloseUnlock

SpecPool == Init /\ [][NextPool]_vars

\* The calls of dialPool alone, Close never being called; each step of a
\* call is taken when it stays possible (every Dial returns).
NextDial ==
    \/ \E p \in Procs : DialPoolStart(p)
    \/ \E p \in Procs : DialPoolLock(p)
    \/ \E p \in Procs : DialPoolDial(p)
    \/ \E p \in Procs : DialPoolFill(p)
    \/ \E p \in Procs : DialPoolRecv(p)
    \/ \E p \in Procs : DialPoolSend(p)

SpecDial ==
    Init /\ [][NextDial]_vars /\ \A p \in Procs : WF_vars(DialPoolStep(p))

\* ------------------------------------------- the collation Environment
\* The body of the loop of NewEnvironment for one collation ID, with the
\* binary collation seen last taking precedence.
visitLastBinary(e, collid) ==
    LET vi == e.table[collid]
        csname == vi.charset
        old == IF csname \in DOMAIN e.byCharset THEN e.byCharset[csname]
               ELSE NoDefaults
        defaults == [Default |-> IF vi.isdefault THEN collid ELSE old.Default,
                     Binary |-> IF vi.binary THEN collid ELSE old.Binary]
    IN  IF ~vi.alias THEN e
        ELSE IF ~vi.supported
        THEN [e EXCEPT !.unsupported = @ \cup {collid}]
        ELSE [e EXCEPT !.byID = @ \cup {collid},
                       !.byCharset = [cs \in DOMAIN @ \cup {csname} |->
                                        IF cs = csname THEN defaults ELSE @[cs]]]

\* The body of the loop of NewEnvironment for one collation ID: byName and
\* byID have the same keys, one name per ID.
visit(e, collid) ==
    LET vi == e.table[collid]
        csname == vi.charset
        old == IF csname \in DOMAIN e.byCharset THEN e.byCharset[csname]
               ELSE NoDefaults
        defaults == [Default |-> IF vi.isdefault THEN collid ELSE old.Default,
                     Binary |-> IF vi.binary
                                THEN (IF old.Binary # NoColl /\ old.Binary > collid
                                      THEN old.Binary ELSE collid)
                                ELSE old.Binary]
    IN  IF ~vi.alias THEN e
        ELSE IF ~vi.supported
        THEN [e EXCEPT !.unsupported = @ \cup {collid}]
        ELSE [e EXCEPT !.byID = @ \cup {collid},
                       !.byCharset = [cs \in DOMAIN @ \cup {csname} |->
                                        IF cs = csname THEN defaults ELSE @[cs]]]

\* env.BinaryCollationForCharset(charset)
BinaryCollationForCharset(e, charset) ==
    IF charset \in DOMAIN e.byCharset THEN e.byCharset[charset].Binary
    ELSE NoColl

\* NewEnvironment(version): the tables as the version sees them.
NewEnvironmentStart ==
    \E table \in Tables :
        /\ env.stage = "none"
        /\ env' = [NoEnv EXCEPT !.stage = "range", !.table = table,
                                !.todo = CollIDs]
        /\ UNCHANGED <<decimalVars, poolVars>>

\* One iteration of the range over globalVersionInfo, in any order.
NewEnvironmentVisit ==
    \E collid \in env.todo :
        /\ env.stage = "range"
        /\ env' = [visit(env, collid) EXCEPT
                      !.todo = @ \ {collid},
                      !.first = IF @ = NoColl THEN collid ELSE @]
        /\ UNCHANGED <<decimalVars, poolVars>>

\* return env
NewEnvironmentReturn ==
    /\ env.stage = "range"
    /\ env.todo = {}
    /\ env' = [env EXCEPT !.stage = "built"]
    /\ UNCHANGED <<decimalVars, poolVars>>

\* env.BinaryCollationForCharset(charset)
DoBinaryCollationForCharset ==
    \E charset \in Charsets :
        /\ env.stage = "built"
        /\ env' = [env EXCEPT !.stage = "asked", !.charset = charset,
                              !.answer = BinaryCollationForCharset(env, charset)]
        /\ UNCHANGED <<decimalVars, poolVars>>

NextEnv ==
    \/ NewEnvironmentStart
    \/ NewEnvironmentVisit
    \/ NewEnvironmentReturn
    \/ DoBinaryCollationForCharset

SpecEnv == Init /\ [][NextEnv]_vars

\* ------------------------------------------- exact decimal mathematics
\* What the properties are stated in: numbers v * 10^w whose exponent w is a
\* mathematical integer, kept as hi * 2^30 + lo so that sums of two int32
\* exponents are represented exactly.
WBase == 1024 * 1024 * 1024
W(e) == [hi |-> e \div WBase, lo |-> e % WBase]
WAdd(a, b) ==
    [hi |-> a.hi + b.hi + ((a.lo + b.lo) \div WBase), lo |-> (a.lo + b.lo) % WBase]
WNeg(a) ==
    IF a.lo = 0 THEN [hi |-> -a.hi, lo |-> 0]
    ELSE [hi |-> -a.hi - 1, lo |-> WBase - a.lo]
\* a - b when it lies within -Far..Far, else Far or -Far.
Far == 10 * 10
WClip(n) == IF n > Far THEN Far ELSE IF n < -Far THEN -Far ELSE n
WDiff(a, b) ==
    LET dh == a.hi - b.hi
    IN  IF dh >= 2 THEN Far
        ELSE IF dh <= -2 THEN -Far
        ELSE IF dh = 1 THEN WClip(WBase + (a.lo - b.lo))
        ELSE IF dh = -1 THEN WClip((a.lo - b.lo) - WBase)
        ELSE WClip(a.lo - b.lo)

\* The number a Decimal (value, exp) stands for, and products of two.
Num(d) == [v |-> d.value, w |-> W(d.exp)]
NumTimes(a, b) == [v |-> a.v * b.v, w |-> WAdd(a.w, b.w)]
NumNeg(a) == [v |-> -a.v, w |-> a.w]
NumShift(a, n) == [v |-> a.v, w |-> WAdd(a.w, W(n))]
\* The same number with no trailing zero in v.
RECURSIVE Strip(_)
Strip(a) ==
    IF a.v # 0 /\ a.v % 10 = 0
    THEN Strip([v |-> a.v \div 10, w |-> WAdd(a.w, W(1))])
    ELSE a
\* |a| compared with |b|: -1, 0 or 1.  Significands are below 10^10, so an
\* exponent 10 or more above the other decides.
NumCmpAbs(a, b) ==
    LET k == WDiff(a.w, b.w)
        av == Abs(a.v)
        bv == Abs(b.v)
    IN  IF av = 0 \/ bv = 0 THEN IntCmp(av, bv)
        ELSE IF k >= 10 THEN 1
        ELSE IF k <= -10 THEN -1
        ELSE IF k >= 0
        THEN (IF av > bv \div Pow10(k) THEN 1
              ELSE IF av < bv \div Pow10(k) THEN -1
              ELSE IF bv % Pow10(k) = 0 THEN 0 ELSE -1)
        ELSE (IF bv > av \div Pow10(-k) THEN -1
              ELSE IF bv < av \div Pow10(-k) THEN 1
              ELSE IF av % Pow10(-k) = 0 THEN 0 ELSE 1)
NumEq(a, b) == Sgn(a.v) = Sgn(b.v) /\ NumCmpAbs(a, b) = 0
\* Whether a + b + c = 0.  With no trailing zeros, the lowest digit of the
\* sum is that of the terms of least exponent, so a non-zero term 10 or more
\* places above the least cannot be cancelled by significands below 10^10.
NumSumZero(a, b, c) ==
    LET t == <<Strip(a), Strip(b), Strip(c)>>
        NZ == {i \in 1..3 : t[i].v # 0}
    IN  \/ NZ = {}
        \/ /\ NZ # {}
           /\ LET m == CHOOSE i \in NZ : \A j \in NZ : WDiff(t[j].w, t[i].w) >= 0
                  n(i) == IF i \in NZ THEN t[i].v * Pow10(WDiff(t[i].w, t[m].w))
                          ELSE 0
              IN  /\ \A i \in NZ : WDiff(t[i].w, t[m].w) <= 9
                  /\ n(1) + n(2) + n(3) = 0

\* The exact quotient d / d2 in units of 10^(-p), as numerator and
\* denominator: kind "far" when it is of magnitude 10^10 or more (no result
\* of the model is), "zero" when its magnitude is below 10^(-1).
Quotient(d, d2, p) ==
    LET k == WDiff(WAdd(WAdd(W(d.exp), WNeg(W(d2.exp))), W(p)), W(0))
    IN  IF d.value = 0 \/ k <= -11 THEN [kind |-> "zero", n |-> 0, m |-> 1]
        ELSE IF k >= 20 THEN [kind |-> "far", n |-> 0, m |-> 1]
        ELSE IF k >= 0
        THEN [kind |-> "num", n |-> d.value * Pow10(k), m |-> d2.value]
        ELSE [kind |-> "num", n |-> d.value, m |-> d2.value * Pow10(-k)]
\* The quotient truncated toward zero, and rounded half away from zero.
Truncated(n, m) == Sgn(n) * Sgn(m) * (Abs(n) \div Abs(m))
HalfAway(n, m) ==
    Sgn(n) * Sgn(m) *
        ((Abs(n) \div Abs(m)) + (IF 2 * (Abs(n) % Abs(m)) >= Abs(m) THEN 1 ELSE 0))
\* Whether the number r is d / d2 truncated (rounded) to a multiple of 10^(-p).
IsTruncatedQuotient(r, d, d2, p) ==
    LET qt == Quotient(d, d2, p)
    IN  /\ qt.kind # "far"
        /\ NumEq(r, [v |-> Truncated(qt.n, qt.m), w |-> WNeg(W(p))])
IsRoundedQuotient(r, d, d2, p) ==
    LET qt == Quotient(d, d2, p)
    IN  /\ qt.kind # "far"
        /\ NumEq(r, [v |-> HalfAway(qt.n, qt.m), w |-> WNeg(W(p))])
\* Whether the number q is an integer multiple of 10^(-p).
IsMultiple(q, p) == q.v = 0 \/ WDiff(Strip(q).w, WNeg(W(p))) >= 0

\* ------------------------------------------------------------- claims
\* The largest form for (integral, fractional): 10^(integral+fractional) - 1
\* scaled by 10^(-fractional).
LargestNum(integral, fractional) ==
    [v |-> Pow10(integral + fractional) - 1, w |-> W(-fractional)]

\* C1: after any earlier calls, Clamp(d, integral, fractional) returns the
\* largest form with the sign of d when |d| exceeds it, and d unchanged
\* otherwise.
ClampSaturatesWithSign ==
    (last.op = "Clamp" /\ last.outcome = "ok") =>
        LET lim == LargestNum(last.p, last.p2)
        IN  IF NumCmpAbs(Num(last.d), lim) > 0
            THEN NumEq(Num(OutV), IF last.d.value < 0 THEN NumNeg(lim) ELSE lim)
            ELSE OutV = last.d

\* C2: every package-level cell (pow10bigtab, limitsBigTab, Zero and the
\* small integers) still holds the value it was initialised with.
ConstantTablesNeverMutated ==
    \A a \in GlobalCells : heap[a] = InitialValue(a)

\* C3: quoRem(d, d2, p) with d2 # 0 returns (q, r) with d = d2*q + r, q an
\* integer multiple of 10^(-p), |r| < |d2| * 10^(-p), and r zero or of the
\* sign of d.
QuoRemDivisionLaw ==
    (last.op = "quoRem" /\ last.outcome = "ok") =>
        LET d == Num(last.d)
            d2 == Num(last.d2)
            q == Num(OutV)
            r == Num(Out2V)
        IN  /\ NumSumZero(d, NumNeg(NumTimes(d2, q)), NumNeg(r))
            /\ IsMultiple(q, last.p)
            /\ NumCmpAbs(r, NumShift(d2, -last.p)) < 0
            /\ r.v = 0 \/ Sgn(r.v) = Sgn(d.v)

\* C4: mod(d, d2) with d2 # 0 is d - d2 * trunc(d / d2): zero or of the sign
\* of d, and of magnitude below |d2|.
ModIsTruncatedRemainder ==
    (last.op = "mod" /\ last.outcome = "ok") =>
        LET d == Num(last.d)
            d2 == Num(last.d2)
            m == Num(OutV)
            t == Quotient(last.d, last.d2, 0)
        IN  /\ NumSumZero(d, NumNeg(m),
                          NumNeg(NumTimes(d2, [v |-> Truncated(t.n, t.m), w |-> W(0)])))
            /\ m.v = 0 \/ Sgn(m.v) = Sgn(d.v)
            /\ NumCmpAbs(m, d2) < 0

\* C5: Div, div, divRound, quoRem and mod never return when d2 is zero.
DivisionByZeroAborts ==
    (last.op \in {"Div", "div", "divRound", "quoRem", "mod"} /\ last.d2.value = 0)
        => last.outcome = "panic"

\* C6: Round(places) returns the multiple of 10^(-places) nearest to d, exact
\* halves going away from zero whatever the sign of d, and leaves the
\* receiver as it was.
RoundHalfAwayFromZero ==
    (last.op = "Round" /\ last.outcome = "ok") =>
        /\ IsRoundedQuotient(Num(OutV), last.d, [value |-> 1, exp |-> 0], last.p)
        /\ XV = last.d

\* C7: divRound(d, d2, p) with d2 # 0 returns the multiple of 10^(-p) nearest
\* to d / d2, an exact half going away from zero whatever the signs.
DivRoundNearestHalfAway ==
    (last.op = "divRound" /\ last.outcome = "ok") =>
        IsRoundedQuotient(Num(OutV), last.d, last.d2, last.p)

\* Whether d.exp - d2.exp + scale stays within int32 at each step.
ShiftInRange(d, d2, scale) ==
    /\ d2.exp # MinInt32
    /\ ~SumOverflows(d.exp, Neg32(d2.exp))
    /\ ~SumOverflows(Sub32(d.exp, d2.exp), scale)
\* C8: Div(d, d2, scaleIncr) returns d / d2 rounded half away from zero at its
\* result scale, not truncated.
DivRoundsAtResultScale ==
    (/\ last.op = "Div" /\ last.outcome = "ok" /\ last.d2.value # 0
     /\ OutV.exp # MinInt32
     /\ ShiftInRange(last.d, last.d2, -OutV.exp)) =>
        IsRoundedQuotient(Num(OutV), last.d, last.d2, -OutV.exp)
\* C8 as amended: Div returns d / d2 truncated toward zero at its result
\* scale, whenever the exponent shift d.exp - d2.exp + scale stays within
\* int32.
DivTruncatesAtResultScale ==
    (/\ last.op = "Div" /\ last.outcome = "ok" /\ last.d2.value # 0
     /\ OutV.exp # MinInt32
     /\ ShiftInRange(last.d, last.d2, -OutV.exp)) =>
        IsTruncatedQuotient(Num(OutV), last.d, last.d2, -OutV.exp)
DivTruncatesWitness ==
    /\ last.op = "Div" /\ last.outcome = "ok"
    /\ last.d = [value |-> 5, exp |-> 1] /\ last.d2 = [value |-> 2, exp |-> 1]
    /\ last.p = 0
    /\ OutV = [value |-> 2, exp |-> 0]

\* The number of 9-digit words that hold s digits, and s rounded up to the
\* next multiple of 9.
Words(s) == (s + 8) \div 9
Up9(s) == 9 * Words(s)
\* The exponents e whose scale -e is from -8 up to 2^31 - 9: below, the
\* truncating division of the code is not Words; above, s + 8 leaves int32.
PlainExp(e) == e >= 8 - MaxInt32 /\ e <= 8
\* C9: for non-zero d the result scale of Div(d, d2, scaleIncr) is
\* up9(-d.exp) + up9(-d2.exp) + scaleIncr.
DivScaleIsSumOfUp9 ==
    (/\ last.op = "Div" /\ last.outcome = "ok" /\ last.d.value # 0
     /\ PlainExp(last.d.exp) /\ PlainExp(last.d2.exp)) =>
        -OutV.exp = Up9(-last.d.exp) + Up9(-last.d2.exp) + last.p
\* C9 as amended: for scales s1 = -d.exp and s2 = -d2.exp from -8 up, the
\* result scale is 9 * words(words(s1) + words(s2) + k), where k is scaleIncr
\* less (words(s1) - s1) + (words(s2) - s2), and not below 0.
DivScaleIsWholeWords ==
    (/\ last.op = "Div" /\ last.outcome = "ok" /\ last.d.value # 0
     /\ PlainExp(last.d.exp) /\ PlainExp(last.d2.exp)) =>
        LET s1 == -last.d.exp
            s2 == -last.d2.exp
            pad == (Words(s1) - s1) + (Words(s2) - s2)
            k == IF last.p - pad < 0 THEN 0 ELSE last.p - pad
        IN  -OutV.exp = Up9(Words(s1) + Words(s2) + k)
DivScaleWitness ==
    /\ last.op = "Div" /\ last.outcome = "ok"
    /\ last.d = [value |-> 1, exp |-> -1] /\ last.d2 = [value |-> 1, exp |-> 1]
    /\ last.p = 1
    /\ OutV.exp = -9

\* C10: Mul returns a value equal to Zero, without aborting, when an operand
\* is zero, even if the two exponents sum outside int32.
MulByZeroIsZero ==
    (last.op = "Mul" /\ (last.d.value = 0 \/ last.d2.value = 0)) =>
        /\ last.outcome = "ok"
        /\ NumEq(Num(OutV), Num(ensureInitialized(heap, Zero)))
MulByZeroOverflowWitness ==
    /\ last.op = "Mul" /\ last.outcome = "ok"
    /\ last.d.value = 0 /\ last.d2.value # 0
    /\ last.d.exp = MaxInt32 /\ last.d2.exp = MaxInt32
    /\ OutV.value = 0

\* C11: when either operand of Mul is zero the result is the canonical zero,
\* of magnitude 0 and exponent 0.
MulByZeroIsCanonicalZero ==
    (last.op = "Mul" /\ (last.d.value = 0 \/ last.d2.value = 0)) =>
        /\ last.outcome = "ok"
        /\ OutV = [value |-> 0, exp |-> 0]

\* C12: for two non-zero operands Mul returns the product of the magnitudes
\* with exponent exp1 + exp2 when that sum is within int32, and aborts when
\* it is not.
MulProductOrAbort ==
    (last.op = "Mul" /\ last.d.value # 0 /\ last.d2.value # 0) =>
        IF SumOverflows(last.d.exp, last.d2.exp)
        THEN last.outcome = "panic"
        ELSE /\ last.outcome = "ok"
             /\ OutV = [value |-> last.d.value * last.d2.value,
                        exp |-> last.d.exp + last.d2.exp]
MulOverflowWitness ==
    /\ last.op = "Mul" /\ last.outcome = "panic"
    /\ last.d.value # 0 /\ last.d2.value # 0
    /\ last.d.exp = MaxInt32 /\ last.d2.exp = MaxInt32

\* Whether the wide integer w is within the signed 32-bit range.
InInt32(w) == w.hi >= -2 /\ w.hi <= 1
\* C13: quoRem aborts whenever d.exp - d2.exp + precision, as a mathematical
\* integer, is outside the signed 32-bit range.
QuoRemAbortsOutOfRange ==
    (/\ last.op = "quoRem"
     /\ ~InInt32(WAdd(WAdd(W(last.d.exp), WNeg(W(last.d2.exp))), W(last.p)))) =>
        last.outcome = "panic"

\* The public operations of the model that are not the in-place variant.
PublicOps == {"Mul", "Div", "Round", "Clamp", "Add", "Sub", "Neg"}
\* C14: no Decimal returned by a public operation other than NegInPlace
\* shares its magnitude buffer with an operand or with a package-level
\* value.
ResultOwnsItsBuffer ==
    (last.op \in PublicOps /\ last.outcome = "ok" /\ last.out.value # NIL) =>
        last.out.value \notin GlobalCells \cup {x.value}

\* C15: after a public operation other than NegInPlace returns, the receiver
\* holds the value it held before the call.
ReceiverKeepsItsValue ==
    (last.op \in PublicOps) => XV = last.d

\* C16: for every Decimal d, NewFromString(d.String()) and
\* NewFromMySQL(d.StringMySQL()) succeed and return a Decimal equal to d.
FormatThenParseIsIdentity ==
    (txt.op = "String") =>
        /\ ~txt.res.err /\ NumEq(Num(txt.res.d), Num(txt.d))
        /\ ~txt.res2.err /\ NumEq(Num(txt.res2.d), Num(txt.d))
FormatThenParseWitness ==
    /\ txt.op = "String"
    /\ txt.d = [value |-> -5, exp |-> -fastPathLen]
    /\ Len(txt.text2) > fastPathLen + 1
    /\ txt.res2 = [err |-> FALSE, d |-> txt.d]
    /\ txt.res = [err |-> FALSE, d |-> txt.d]

\* The text after one optional leading sign, and how many points it holds.
Points(t) == Cardinality({i \in 1..Len(t) : t[i] = "."})
\* C17: NewFromMySQL returns an error for every input that, after one
\* optional leading sign, is empty, holds a byte that is neither a digit nor
\* '.', or holds more than one '.'.
NewFromMySQLRejectsMalformed ==
    (/\ txt.op = "NewFromMySQL"
     /\ LET t == Unsigned(txt.s)
        IN  \/ Len(t) = 0
            \/ \E i \in 1..Len(t) : ~IsDigit(t[i]) /\ t[i] # "."
            \/ Points(t) > 1) =>
        txt.res.err

\* C18: NewFromMySQL rejects every input that holds no digit.
NewFromMySQLNeedsADigit ==
    (/\ txt.op = "NewFromMySQL"
     /\ \A i \in 1..Len(txt.s) : ~IsDigit(txt.s[i])) =>
        txt.res.err

\* A text with its points removed.
NotPoint(c) == c # "."
Unpointed(t) == SelectSeq(t, NotPoint)
\* The number of characters after the point of a text (0 without a point).
FracLen(t) == IF IndexByte(t, ".") = 0 THEN 0 ELSE Len(t) - IndexByte(t, ".")
\* C19: NewFromString returns the digits with the point removed as the
\* magnitude and (exponent token, 0 if absent) - (digits after the point) as
\* the exponent; it returns an error when there is more than one '.', when
\* the exponent token is not a signed integer, when the digits are empty or
\* not numeric, or when the combined exponent is outside int32.
NewFromStringGrammar ==
    (txt.op = "NewFromString") =>
        LET eIndex == IndexAnyEe(txt.s)
            token == SubSeq(txt.s, eIndex + 1, Len(txt.s))
            number == IF eIndex = 0 THEN txt.s ELSE SubSeq(txt.s, 1, eIndex - 1)
            body == Unsigned(number)
            digits == Unpointed(body)
            tokenOk == eIndex = 0 \/ ~ParseInt32(token).err
            e == IF eIndex = 0 THEN 0 ELSE ParseInt32(token).d.value
            wellFormed ==
                /\ tokenOk
                /\ Points(body) <= 1
                /\ Len(digits) > 0
                /\ \A i \in 1..Len(digits) : IsDigit(digits[i])
                /\ ~SumOverflows(e, -FracLen(body))
        IN  IF wellFormed
            THEN /\ ~txt.res.err
                 /\ txt.res.d.exp = e - FracLen(body)
                 /\ txt.res.d.value = (IF number[1] = "-" THEN -DigitsValue(digits)
                                       ELSE DigitsValue(digits))
            ELSE txt.res.err

\* The number a rendered text stands for when its point is dropped.
TextNumber(t) == SignedValue(Unpointed(t))
\* How many of the last k digits of v >= 0 are trailing zeros (v is read
\* with zeros in front when it has fewer than k digits).
TrailingZeros(v, k) ==
    LET digits == NatText(v)
        n == Len(digits)
        IsZeroAt(i) == i > n \/ digits[n + 1 - i] = "0"
    IN  CHOOSE z \in 0..k :
            /\ \A i \in 1..z : IsZeroAt(i)
            /\ z = k \/ ~IsZeroAt(z + 1)
IsPlainText(t) ==
    /\ Points(t) <= 1
    /\ \A i \in 1..Len(t) : IsDigit(t[i]) \/ t[i] = "." \/ (t[i] = "-" /\ i = 1)
RoundExponentIsMinusPlaces ==
    (last.op = "Round" /\ last.outcome = "ok") =>
        (last.p # MinInt32 /\ OutV.exp = -last.p)
\* The rendering of a value rounded to N places: exactly N fractional digits
\* for N > 0, no point for N <= 0, the digits those of the rounded value.
StringFixedRendersPlaces ==
    (txt.op = "StringFixed") =>
        /\ txt.text = txt.text2
        /\ IsPlainText(txt.text)
        /\ FracLen(txt.text) = (IF txt.places > 0 THEN txt.places ELSE 0)
        /\ Points(txt.text) = (IF txt.places > 0 THEN 1 ELSE 0)
        /\ LET shown == [v |-> TextNumber(txt.text),
                         w |-> W(IF txt.places > 0 THEN -txt.places ELSE 0)]
           IN  IF txt.d.exp >= -txt.places THEN NumEq(shown, Num(txt.d))
               ELSE NumEq(shown,
                          [v |-> HalfAway(txt.d.value, Pow10(-txt.places - txt.d.exp)),
                           w |-> W(-txt.places)])

\* The smaller of two exponents.
MinExp(a, b) == IF a <= b THEN a ELSE b
\* C23: Add and Sub are exact: the result of Add (Sub) has the numeric value
\* d1 + d2 (d1 - d2) and the exponent min(d1.exp, d2.exp), except that Sub
\* returns exponent 0 when the difference is exactly zero.
AddSubExact ==
    /\ (last.op = "Add") =>
           /\ last.outcome = "ok"
           /\ OutV.exp = MinExp(last.d.exp, last.d2.exp)
           /\ NumSumZero(Num(last.d), Num(last.d2), NumNeg(Num(OutV)))
    /\ (last.op = "Sub") =>
           /\ last.outcome = "ok"
           /\ NumSumZero(Num(last.d), NumNeg(Num(last.d2)), NumNeg(Num(OutV)))
           /\ OutV.exp = (IF OutV.value = 0 THEN 0
                          ELSE MinExp(last.d.exp, last.d2.exp))
SubZeroDifferenceWitness ==
    /\ last.op = "Sub"
    /\ last.d = [value |-> 2, exp |-> 1]
    /\ last.d2 = [value |-> 2, exp |-> 1]
    /\ OutV = [value |-> 0, exp |-> 0]

\* C24: for every Decimal d, d.Add(Zero) compares Equal to d, and
\* d.Add(d.Neg()) compares Equal to the zero value.
AddIdentityAndInverse ==
    /\ (last.op = "AddZero") =>
           /\ last.outcome = "ok" /\ last.n = 1
           /\ NumEq(Num(OutV), Num(last.d))
    /\ (last.op = "AddNeg") =>
           /\ last.outcome = "ok" /\ last.n = 1
           /\ OutV.value = 0
AddInverseWitness ==
    /\ last.op = "AddNeg"
    /\ last.d.value # 0 /\ last.d.exp < 0
    /\ last.n = 1

\* The fixed-format grammar: an optional sign, then digits with at most one
\* point among them.
IsFixedFormat(s) ==
    LET t == Unsigned(s)
    IN  /\ Points(t) <= 1
        /\ \A i \in 1..Len(t) : IsDigit(t[i]) \/ t[i] = "."
        /\ \E i \in 1..Len(t) : IsDigit(t[i])
\* C25: for every input of the fixed-format grammar, NewFromMySQL returns the
\* same (magnitude, exponent) on the 64-bit path and on the arbitrary-precision
\* path: the signed integer read from the digits with the point removed, and
\* minus the number of digits after the point (0 without a point).
NewFromMySQLPathsAgree ==
    (txt.op = "NewFromMySQL" /\ IsFixedFormat(txt.s)) =>
        LET t == Unsigned(txt.s)
            magnitude == DigitsValue(Unpointed(t))
            expected == Ok(IF txt.s[1] = "-" THEN -magnitude ELSE magnitude,
                           -FracLen(t))
        IN  txt.res = expected /\ txt.res2 = expected
NewFromMySQLPathsWitness ==
    /\ txt.op = "NewFromMySQL"
    /\ txt.s = <<"-", ".", "5">>
    /\ txt.res = Ok(-5, -1)
    /\ txt.res2 = Ok(-5, -1)

\* C26: the uninitialised Decimal behaves as zero: as receiver or argument
\* of any public operation it gives the outcome New(0, 0) gives, and its
\* missing buffer is never dereferenced.
UninitializedIsZero ==
    (un.op # "none") => un.nil = un.zero
UninitializedWitness ==
    /\ un.op = "Div" /\ un.role = "argument"
    /\ XV.value # 0
    /\ un.nil.outcome = "panic"
DialPoolReturns ==
    \A p \in Procs : (procs[p].pc # "idle") ~> (procs[p].pc = "idle")

\* C30: in every interleaving of Close with dialPool calls, dialPool never
\* sends on a channel Close has closed and never returns the client of a nil
\* entry: each call returns a usable client or an error.
DialPoolNeverPanics ==
    \A p \in Procs : procs[p].outcome \in {"none", "ok", "error"}

\* The binary collations of a charset that the version has and the package
\* implements.
BinaryOf(table, charset) ==
    {id \in CollIDs : /\ table[id].alias /\ table[id].supported
                      /\ table[id].binary /\ table[id].charset = charset}
\* C28: NewEnvironment selects, for each charset, the binary collation with
\* the highest ID among those available in the version, in whatever order
\* the table is iterated; BinaryCollationForCharset returns that collation.
HighestBinaryCollationWins ==
    /\ (env.stage \in {"built", "asked"}) =>
           \A cs \in Charsets :
               LET B == BinaryOf(env.table, cs)
                   chosen == IF cs \in DOMAIN env.byCharset
                             THEN env.byCharset[cs].Binary ELSE NoColl
               IN  IF B = {} THEN chosen = NoColl
                   ELSE chosen \in B /\ \A id \in B : id <= chosen
    /\ (env.stage = "asked") =>
           LET B == BinaryOf(env.table, env.charset)
           IN  IF B = {} THEN env.answer = NoColl
               ELSE env.answer \in B /\ \A id \in B : id <= env.answer
HighestBinaryWitness ==
    /\ env.stage = "asked"
    /\ env.charset = "utf8mb4"
    /\ BinaryOf(env.table, "utf8mb4") = {1, MaxColl}
    /\ env.first = MaxColl
    /\ env.answer = MaxColl

====
